---- MODULE Spec2Model ----
(***************************************************************************)
(* server.js: an Express router over two SQLite stores.  Six API routes    *)
(* translate a request into one parameterised SQL statement and answer     *)
(* with JSON from the statement's callback.                                 *)
(*                                                                         *)
(* A request is three steps of the event loop: the route handler (runs to  *)
(* completion, validates, queues the statement), the statement's           *)
(* execution inside the store (atomic under the store's mutex), and the    *)
(* statement's callback (runs to completion, sends the response).  The     *)
(* handler and the callback touch no shared state, so the farmers table    *)
(* evolves by a serial sequence of statements; the model follows one       *)
(* request at a time through the three steps.                              *)
(***************************************************************************)
EXTENDS Integers, Sequences, FiniteSets, TLC

\* Largest rowid the model lets the store assign.
MaxId == 2

(***************************************************************************)
(* Request inputs.  A JSON body is a function from the keys it supplies to  *)
(* their values; a key outside its DOMAIN is `undefined` in the handler.   *)
(* "" is the falsy string, 0 the falsy number.                             *)
(***************************************************************************)
RequiredFields ==
    {"name", "location", "crop", "phone_number", "farm_size", "average_yield"}

Opt(key, values) == {<<>>} \cup {(key :> v) : v \in values}

FullBodies ==
    {n @@ l @@ c @@ p @@ s @@ a :
        n \in {("name" :> v) : v \in {"", "Ann"}},
        l \in {("location" :> "Leyte")},
        c \in {("crop" :> v) : v \in {"rice", "corn"}},
        p \in {("phone_number" :> "0917")},
        s \in {("farm_size" :> v) : v \in {0, 5}},
        a \in {("average_yield" :> 7)}}

Omit(body, key) == [k \in DOMAIN body \ {key} |-> body[k]]

\* POST bodies: all six required keys, or exactly one of them left out.
PostBodies == FullBodies \cup {Omit(b, k) : b \in FullBodies, k \in RequiredFields}

\* PUT bodies: the key sets an edit form or a toggle sends.
PutShapes ==
    { {}, {"name"}, {"crop"}, {"farm_size"}, {"deactivated"},
      {"name", "farm_size"}, {"crop", "deactivated"},
      {"location", "phone_number", "average_yield"},
      {"name", "location", "crop", "phone_number", "farm_size", "average_yield",
       "deactivated"} }

PutBodies ==
    {b \in {n @@ l @@ c @@ p @@ s @@ a @@ d :
                n \in Opt("name", {"", "Ann"}),
                l \in Opt("location", {"Leyte"}),
                c \in Opt("crop", {"rice", "corn"}),
                p \in Opt("phone_number", {"0917"}),
                s \in Opt("farm_size", {0, 5}),
                a \in Opt("average_yield", {7}),
                d \in Opt("deactivated", {FALSE, TRUE})} :
        DOMAIN b \in PutShapes}

\* req.params.id: decimal strings of the rowids in range, and one non-number.
PathIds == {ToString(i) : i \in 1..MaxId} \cup {"abc"}

NoBody == <<>>
NoId == ""

(***************************************************************************)
(* The stores.                                                             *)
(***************************************************************************)
\* historical_yield.db, read-only: Date as yyyymmdd, Yield_kg_per_hectare.
historical_yield ==
    { [Date |-> 20230101, Yield_kg_per_hectare |-> 410],
      [Date |-> 20240101, Yield_kg_per_hectare |-> 455],
      [Date |-> 20220101, Yield_kg_per_hectare |-> 390] }

\* The value the farmers table gives `deactivated` when an INSERT names no value.
DeactivatedDefault == 0

VARIABLES
    farmers,    \* farmers.db, table farmers: rowid -> row
    pc,         \* "idle" | "queued" | "done" | "responded"
    req,        \* the request being served: route, params.id, body
    stmt,       \* the statement handed to the store: op, values, id
    result,     \* what the store passes the callback: err, rows, lastID, changes
    res,        \* the response sent: status and JSON body
    dbCalls,    \* store calls the request has made
    before,     \* the farmers table as the request found it
    created     \* the ids create responses have returned, in order

vars == <<farmers, pc, req, stmt, result, res, dbCalls, before, created>>

NoReq == [route |-> "none", id |-> NoId, body |-> NoBody]
NoStmt == [op |-> "none", values |-> <<>>, id |-> NoId]
NoResult == [err |-> FALSE, rows |-> {}, lastID |-> 0, changes |-> 0]
NoRes == [status |-> 0, id |-> 0, rows |-> {}, deactivated |-> FALSE]

Init ==
    /\ farmers = <<>>
    /\ pc = "idle"
    /\ req = NoReq
    /\ stmt = NoStmt
    /\ result = NoResult
    /\ res = NoRes
    /\ dbCalls = 0
    /\ before = <<>>
    /\ created = <<>>

(***************************************************************************)
(* What the handlers compute from a body.                                  *)
(***************************************************************************)
\* The required-field check with phone_number forgotten.
MissingRequiredNoPhone(body) ==
    \/ \E k \in {"name", "location", "crop"} :
          k \notin DOMAIN body \/ body[k] = ""
    \/ "farm_size" \notin DOMAIN body
    \/ "average_yield" \notin DOMAIN body

\* !name || !location || !crop || !phone_number ||
\* farm_size === undefined || average_yield === undefined
MissingRequired(body) ==
    \/ \E k \in {"name", "location", "crop", "phone_number"} :
          k \notin DOMAIN body \/ body[k] = ""
    \/ "farm_size" \notin DOMAIN body
    \/ "average_yield" \notin DOMAIN body

\* One `"Column" = ?` and its value when the string key is truthy.
IfTruthy(body, key, column) ==
    IF key \in DOMAIN body /\ body[key] /= "" THEN (column :> body[key]) ELSE <<>>

\* The number written as `farm_size || 0`: an absent key overwrites with 0.
IfDefinedOrZero(body, key, column) ==
    column :> (IF key \in DOMAIN body THEN body[key] ELSE 0)

\* The number tested as `if (farm_size)`: 0 is dropped like an absent key.
IfDefinedTruthy(body, key, column) ==
    IF key \in DOMAIN body /\ body[key] /= 0 THEN (column :> body[key]) ELSE <<>>

\* One `"Column" = ?` and its value when the key is not undefined.
IfDefined(body, key, column) ==
    IF key \in DOMAIN body THEN (column :> body[key]) ELSE <<>>

\* The flag tested as `if (deactivated)`: an explicit false is dropped.
IfFlagTruthy(body) ==
    IF "deactivated" \in DOMAIN body /\ body["deactivated"]
    THEN ("deactivated" :> 1)
    ELSE <<>>

\* `"deactivated" = ?` with deactivated ? 1 : 0 when the key is not undefined.
IfFlag(body) ==
    IF "deactivated" \in DOMAIN body
    THEN ("deactivated" :> (IF body["deactivated"] THEN 1 ELSE 0))
    ELSE <<>>

\* The fields/values arrays of the PUT handler, as column -> bound value.
SetClause(body) ==
    IfTruthy(body, "name", "Name")
    @@ IfTruthy(body, "location", "Location")
    @@ IfTruthy(body, "crop", "Crop_Type")
    @@ IfTruthy(body, "phone_number", "Phone_Number")
    @@ IfDefined(body, "farm_size", "Farm_Size")
    @@ IfDefined(body, "average_yield", "Average_Yield")
    @@ IfFlag(body)

(***************************************************************************)
(* What the store does with a statement.                                   *)
(***************************************************************************)
Max(S) == CHOOSE x \in S : \A y \in S : y <= x
Min(S) == CHOOSE x \in S : \A y \in S : x <= y

\* WHERE rowid = ?, the parameter bound as the text of the path segment.
MatchRows(table, id) == {r \in DOMAIN table : ToString(r) = id}

\* The rowid an INSERT gets: one more than the largest in the table.
NewRowid(table) == IF DOMAIN table = {} THEN 1 ELSE Max(DOMAIN table) + 1

\* INSERT INTO farmers (Name, Location, Crop_Type, Phone_Number, Farm_Size,
\* Average_Yield) VALUES (?, ?, ?, ?, ?, ?)
ExecInsert(table, values) ==
    LET rowid == NewRowid(table)
        row == [Name          |-> values["name"],
                Location      |-> values["location"],
                Crop_Type     |-> values["crop"],
                Phone_Number  |-> values["phone_number"],
                Farm_Size     |-> values["farm_size"],
                Average_Yield |-> values["average_yield"],
                deactivated   |-> DeactivatedDefault]
    IN  [table  |-> table @@ (rowid :> row),
         result |-> [err |-> FALSE, rows |-> {}, lastID |-> rowid, changes |-> 1]]

\* An UPDATE whose `changes` counts only the rows whose values differ afterwards.
ExecUpdateCountChanged(table, set, id) ==
    LET hit == {r \in DOMAIN table : ToString(r) = id}
    IN  [table  |-> [r \in DOMAIN table |->
                        IF r \in hit THEN set @@ table[r] ELSE table[r]],
         result |-> [err |-> FALSE, rows |-> {}, lastID |-> 0,
                     changes |-> Cardinality({r \in hit : set @@ table[r] /= table[r]})]]

\* An UPDATE that lost its WHERE clause: every row is written.
ExecUpdateNoWhere(table, set, id) ==
    [table  |-> [r \in DOMAIN table |-> set @@ table[r]],
     result |-> [err |-> FALSE, rows |-> {}, lastID |-> 0,
                 changes |-> Cardinality(DOMAIN table)]]

\* UPDATE farmers SET <set> WHERE rowid = ?; changes counts the rows matched.
ExecUpdate(table, set, id) ==
    LET hit == MatchRows(table, id)
    IN  [table  |-> [r \in DOMAIN table |->
                        IF r \in hit THEN set @@ table[r] ELSE table[r]],
         result |-> [err |-> FALSE, rows |-> {}, lastID |-> 0,
                     changes |-> Cardinality(hit)]]

\* DELETE FROM farmers WHERE rowid = ?: the row is removed, not flagged.
ExecDeactivateRemove(table, id) ==
    LET hit == {r \in DOMAIN table : ToString(r) = id}
    IN  [table  |-> [r \in DOMAIN table \ hit |-> table[r]],
         result |-> [err |-> FALSE, rows |-> {}, lastID |-> 0,
                     changes |-> Cardinality(hit)]]

\* UPDATE farmers SET deactivated = 1 WHERE rowid = ?
ExecDeactivate(table, id) == ExecUpdate(table, ("deactivated" :> 1), id)

\* SELECT rowid as id, Name, ..., deactivated FROM farmers
SelectFarmers(table) == {("id" :> r) @@ table[r] : r \in DOMAIN table}

\* GROUP BY Crop_Type with COUNT(*): one pass over the rows, one counter per key.
RECURSIVE GroupCount(_, _, _)
GroupCount(table, rowids, acc) ==
    IF rowids = {} THEN acc
    ELSE LET r == Min(rowids)
             k == table[r].Crop_Type
         IN  GroupCount(table, rowids \ {r},
                        IF k \in DOMAIN acc
                        THEN [acc EXCEPT ![k] = @ + 1]
                        ELSE acc @@ (k :> 1))

\* The grouping with WHERE deactivated = 0 added: active farmers only.
SelectCropDistributionActive(table) ==
    LET g == GroupCount(table, {r \in DOMAIN table : table[r].deactivated = 0}, <<>>)
    IN  {[crop_type |-> k, count |-> g[k]] : k \in DOMAIN g}

\* SELECT Crop_Type AS crop_type, COUNT(*) AS count FROM farmers GROUP BY Crop_Type
SelectCropDistribution(table) ==
    LET g == GroupCount(table, DOMAIN table, <<>>)
    IN  {[crop_type |-> k, count |-> g[k]] : k \in DOMAIN g}

\* SELECT Date, Yield_kg_per_hectare FROM historical_yield ORDER BY Date DESC
RECURSIVE SelectYield(_)
SelectYield(rows) ==
    IF rows = {} THEN <<>>
    ELSE LET top == CHOOSE x \in rows : \A y \in rows : y.Date <= x.Date
         IN  <<top>> \o SelectYield(rows \ {top})

Rows(rows) == [err |-> FALSE, rows |-> rows, lastID |-> 0, changes |-> 0]

\* The store runs the queued statement.
Run(table, s) ==
    CASE s.op = "insert"         -> ExecInsert(table, s.values)
      [] s.op = "update"         -> ExecUpdate(table, s.values, s.id)
      [] s.op = "deactivate"     -> ExecDeactivate(table, s.id)
      [] s.op = "select_farmers" -> [table |-> table, result |-> Rows(SelectFarmers(table))]
      [] s.op = "select_crops"   -> [table |-> table,
                                     result |-> Rows(SelectCropDistribution(table))]
      [] s.op = "select_yield"   -> [table |-> table,
                                     result |-> Rows(SelectYield(historical_yield))]

(***************************************************************************)
(* What the callbacks answer.                                              *)
(***************************************************************************)
Status(code) == [NoRes EXCEPT !.status = code]

\* yieldDb.all / farmersDb.all callback: 500 on err, else the rows.
RowsResponse(r) ==
    IF r.err THEN Status(500) ELSE [Status(200) EXCEPT !.rows = r.rows]

\* The INSERT callback answering this.changes where this.lastID is meant.
PostResponseChanges(r) ==
    IF r.err THEN Status(500) ELSE [Status(200) EXCEPT !.id = r.changes]

\* INSERT callback: 500 on err, else { id: this.lastID, message }.
PostResponse(r) ==
    IF r.err THEN Status(500) ELSE [Status(200) EXCEPT !.id = r.lastID]

\* PUT callback: 500 on err, 404 when this.changes === 0, else
\* { message, deactivated: !!deactivated }.
PutResponse(body, r) ==
    IF r.err THEN Status(500)
    ELSE IF r.changes = 0 THEN Status(404)
    ELSE [Status(200) EXCEPT
            !.deactivated = ("deactivated" \in DOMAIN body /\ body["deactivated"])]

\* DELETE callback: 500 on err, 404 when this.changes === 0, else { message }.
DeleteResponse(r) ==
    IF r.err THEN Status(500)
    ELSE IF r.changes = 0 THEN Status(404)
    ELSE Status(200)

(***************************************************************************)
(* The route handlers.                                                     *)
(***************************************************************************)
Accepting == pc = "idle"

\* The handler was entered with this request.
Enter(route, id, body) ==
    /\ Accepting
    /\ req' = [route |-> route, id |-> id, body |-> body]
    /\ before' = farmers
    /\ result' = NoResult
    /\ UNCHANGED <<farmers, created>>

\* The statement is queued and the handler answers 200 without waiting.
QueueAndRespond(s) ==
    /\ stmt' = s
    /\ dbCalls' = 1
    /\ res' = Status(200)
    /\ pc' = "queued"

\* db.all / db.run: the statement is queued, the handler returns.
Queue(s) ==
    /\ stmt' = s
    /\ dbCalls' = 1
    /\ res' = NoRes
    /\ pc' = "queued"

\* return res.status(400).json(...) before any store call.
Reject ==
    /\ stmt' = NoStmt
    /\ dbCalls' = 0
    /\ res' = Status(400)
    /\ pc' = "responded"

\* app.get('/api/data')
GetData ==
    /\ Enter("GET /api/data", NoId, NoBody)
    /\ Queue([NoStmt EXCEPT !.op = "select_yield"])

\* app.get('/api/crop_distribution')
GetCropDistribution ==
    /\ Enter("GET /api/crop_distribution", NoId, NoBody)
    /\ Queue([NoStmt EXCEPT !.op = "select_crops"])

\* app.get('/api/farmers')
GetFarmers ==
    /\ Enter("GET /api/farmers", NoId, NoBody)
    /\ Queue([NoStmt EXCEPT !.op = "select_farmers"])

\* app.post('/api/farmers')
PostFarmer(body) ==
    /\ Enter("POST /api/farmers", NoId, body)
    /\ IF MissingRequired(body)
       THEN Reject
       ELSE /\ NewRowid(farmers) <= MaxId
            /\ Queue([op |-> "insert", values |-> body, id |-> NoId])

\* app.put('/api/farmers/:id')
PutFarmer(id, body) ==
    /\ Enter("PUT /api/farmers/:id", id, body)
    /\ IF DOMAIN SetClause(body) = {}
       THEN Reject
       ELSE Queue([op |-> "update", values |-> SetClause(body), id |-> id])

\* app.delete('/api/farmers/:id')
DeleteFarmer(id) ==
    /\ Enter("DELETE /api/farmers/:id", id, NoBody)
    /\ Queue([op |-> "deactivate", values |-> <<>>, id |-> id])

(***************************************************************************)
(* The store and the callbacks.                                            *)
(***************************************************************************)
\* The store executes the statement and keeps its outcome for the callback.
DbExec ==
    /\ pc = "queued"
    /\ farmers' = Run(farmers, stmt).table
    /\ result' = Run(farmers, stmt).result
    /\ pc' = "done"
    /\ UNCHANGED <<req, stmt, res, dbCalls, before, created>>

\* The store reports a failure: nothing is written, the callback gets err.
DbError ==
    /\ pc = "queued"
    /\ result' = [NoResult EXCEPT !.err = TRUE]
    /\ pc' = "done"
    /\ UNCHANGED <<farmers, req, stmt, res, dbCalls, before, created>>

Respond(route, response) ==
    /\ pc = "done"
    /\ req.route = route
    /\ res' = response
    /\ pc' = "responded"
    /\ UNCHANGED <<farmers, req, stmt, result, dbCalls, before>>

GetDataCallback ==
    /\ Respond("GET /api/data", RowsResponse(result))
    /\ UNCHANGED created

GetCropDistributionCallback ==
    /\ Respond("GET /api/crop_distribution", RowsResponse(result))
    /\ UNCHANGED created

GetFarmersCallback ==
    /\ Respond("GET /api/farmers", RowsResponse(result))
    /\ UNCHANGED created

PostCallback ==
    /\ Respond("POST /api/farmers", PostResponse(result))
    /\ created' = IF result.err THEN created
                  ELSE Append(created, PostResponse(result).id)

PutCallback ==
    /\ Respond("PUT /api/farmers/:id", PutResponse(req.body, result))
    /\ UNCHANGED created

DeleteCallback ==
    /\ Respond("DELETE /api/farmers/:id", DeleteResponse(result))
    /\ UNCHANGED created

\* The response has gone out; the server waits for the next request.
Listen ==
    /\ pc = "responded"
    /\ pc' = "idle"
    /\ req' = NoReq
    /\ stmt' = NoStmt
    /\ result' = NoResult
    /\ res' = NoRes
    /\ dbCalls' = 0
    /\ before' = farmers
    /\ UNCHANGED <<farmers, created>>

Next ==
    \/ GetData
    \/ GetCropDistribution
    \/ GetFarmers
    \/ \E body \in PostBodies : PostFarmer(body)
    \/ \E id \in PathIds, body \in PutBodies : PutFarmer(id, body)
    \/ \E id \in PathIds : DeleteFarmer(id)
    \/ DbExec
    \/ DbError
    \/ GetDataCallback
    \/ GetCropDistributionCallback
    \/ GetFarmersCallback
    \/ PostCallback
    \/ PutCallback
    \/ DeleteCallback
    \/ Listen

Spec == Init /\ [][Next]_vars

(***************************************************************************)
(* Properties.                                                             *)
(*                                                                         *)
(* A state with pc = "responded" is the state a client sees right after    *)
(* the response: `before` is the table the request found, `farmers` the    *)
(* table a following GET reads.  The properties that name a status other   *)
(* than 500 are about requests whose statement the store did not fail.     *)
(***************************************************************************)
Answered(route) == pc = "responded" /\ req.route = route

\* The rows of `before` the request's path id names.
Target == {r \in DOMAIN before : ToString(r) = req.id}

\* The body carries every required key, the string ones non-empty.
CarriesRequired(body) ==
    /\ RequiredFields \subseteq DOMAIN body
    /\ \A k \in {"name", "location", "crop", "phone_number"} : body[k] /= ""

\* The body key that feeds each column.
KeyOf ==
    [Name |-> "name", Location |-> "location", Crop_Type |-> "crop",
     Phone_Number |-> "phone_number", Farm_Size |-> "farm_size",
     Average_Yield |-> "average_yield", deactivated |-> "deactivated"]

\* C1 as stated: a POST whose body carries all six required keys, whatever
\* their values, is answered with an id no earlier create returned, and the
\* table a following GET /api/farmers reads holds that farmer, deactivated = 0.
C1_AnyCarriedFieldsCreate ==
    /\ \A i, j \in DOMAIN created : i /= j => created[i] /= created[j]
    /\ (/\ Answered("POST /api/farmers")
        /\ RequiredFields \subseteq DOMAIN req.body
        /\ ~result.err)
       => /\ res.status = 200
          /\ res.id \notin DOMAIN before
          /\ \E f \in SelectFarmers(farmers) : f.id = res.id /\ f.deactivated = 0

\* C1 amended: no two create responses carry the same id; a POST carrying all
\* the required fields, the four string ones non-empty, is answered with an
\* id, and the table a following GET /api/farmers reads holds a farmer with
\* that id and deactivated = 0.
C1_CreateReturnsFreshListedId ==
    /\ \A i, j \in DOMAIN created : i /= j => created[i] /= created[j]
    /\ Answered("POST /api/farmers") =>
          /\ (CarriesRequired(req.body) /\ ~result.err) => res.status = 200
          /\ res.status = 200 =>
                /\ created /= <<>>
                /\ res.id = created[Len(created)]
                /\ res.id \notin DOMAIN before
                /\ \E f \in SelectFarmers(farmers) :
                      f.id = res.id /\ f.deactivated = 0

\* A second create was answered after an earlier farmer had been deactivated.
C1_Witness ==
    /\ Answered("POST /api/farmers")
    /\ res.status = 200
    /\ Len(created) = 2
    /\ \E r \in DOMAIN before : before[r].deactivated = 1

\* C2: a POST whose body leaves out one of the six required keys is answered
\* 400 by the handler and the farmers table is the table the request found.
C2_MissingFieldRejected ==
    (/\ pc /= "idle"
     /\ req.route = "POST /api/farmers"
     /\ \E k \in RequiredFields : k \notin DOMAIN req.body)
    => /\ pc = "responded"
       /\ res.status = 400
       /\ farmers = before

\* phone_number was left out of a POST to a table that holds a farmer.
C2_Witness ==
    /\ Answered("POST /api/farmers")
    /\ DOMAIN req.body = RequiredFields \ {"phone_number"}
    /\ res.status = 400
    /\ farmers /= <<>>

\* C3: a DELETE of an existing farmer is answered 200 and leaves the flag
\* set; when the flag was already set (the DELETE repeats an earlier one) it is
\* still answered 200, not 404, and the table is left as it was.
C3_DeleteTwice ==
    (Answered("DELETE /api/farmers/:id") /\ ~result.err /\ Target /= {})
    => /\ res.status = 200
       /\ \A n \in Target :
             /\ n \in DOMAIN farmers
             /\ farmers[n].deactivated = 1
             /\ before[n].deactivated = 1 => farmers = before

\* A DELETE of an already deactivated farmer was answered 200.
C3_Witness ==
    /\ Answered("DELETE /api/farmers/:id")
    /\ res.status = 200
    /\ \E n \in Target : before[n].deactivated = 1

\* C4: a DELETE, or a PUT with at least one included field, whose id names no
\* row is answered 404 and leaves the table as it was.
C4_UnknownIdNotFound ==
    (/\ pc = "responded"
     /\ \/ req.route = "DELETE /api/farmers/:id"
        \/ /\ req.route = "PUT /api/farmers/:id"
           /\ \E k \in DOMAIN req.body :
                 k \in {"farm_size", "average_yield", "deactivated"} \/ req.body[k] /= ""
     /\ ~result.err
     /\ Target = {})
    => /\ res.status = 404
       /\ farmers = before

\* A PUT that included fields named no row of a table that holds a farmer.
C4_Witness ==
    /\ Answered("PUT /api/farmers/:id")
    /\ res.status = 404
    /\ Target = {}
    /\ farmers /= <<>>

\* C5: no request removes a row: the table keeps every rowid the request found
\* and every id a create returned, and GET /api/farmers lists each of them.
C5_NoRowRemoved ==
    /\ DOMAIN before \subseteq DOMAIN farmers
    /\ \A i \in DOMAIN created : created[i] \in DOMAIN farmers
    /\ (Answered("GET /api/farmers") /\ res.status = 200) =>
          \A i \in DOMAIN created : \E f \in res.rows : f.id = created[i]

\* GET /api/farmers listed two created farmers, one of them deactivated.
C5_Witness ==
    /\ Answered("GET /api/farmers")
    /\ res.status = 200
    /\ Len(created) = 2
    /\ \E f \in res.rows : f.deactivated = 1

\* C6: a successful PUT keeps the set of rowids, every other farmer's row, and
\* every column of the target whose key the body does not supply (or supplies
\* as the empty string).
C6_UpdateFrame ==
    (Answered("PUT /api/farmers/:id") /\ res.status = 200)
    => /\ DOMAIN farmers = DOMAIN before
       /\ \A r \in DOMAIN before :
             IF r \in Target
             THEN \A c \in DOMAIN KeyOf :
                     (\/ KeyOf[c] \notin DOMAIN req.body
                      \/ /\ c \in {"Name", "Location", "Crop_Type", "Phone_Number"}
                         /\ req.body[KeyOf[c]] = "")
                     => farmers[r][c] = before[r][c]
             ELSE farmers[r] = before[r]

\* A PUT of a few keys changed one of two farmers.
C6_Witness ==
    /\ Answered("PUT /api/farmers/:id")
    /\ res.status = 200
    /\ Cardinality(DOMAIN before) = 2
    /\ DOMAIN req.body = {"name", "farm_size"}
    /\ farmers /= before

\* C7: a PUT of exactly {farm_size: 0} to an existing farmer is answered 200,
\* not 400, and the table a following GET reads shows Farm_Size = 0.
C7_ZeroFarmSize ==
    (/\ Answered("PUT /api/farmers/:id")
     /\ DOMAIN req.body = {"farm_size"}
     /\ req.body["farm_size"] = 0
     /\ ~result.err
     /\ Target /= {})
    => /\ res.status = 200
       /\ \A n \in Target :
             \E f \in SelectFarmers(farmers) : f.id = n /\ f.Farm_Size = 0

\* {farm_size: 0} was written over a farm size of 5.
C7_Witness ==
    /\ Answered("PUT /api/farmers/:id")
    /\ DOMAIN req.body = {"farm_size"}
    /\ req.body["farm_size"] = 0
    /\ res.status = 200
    /\ \E n \in Target : before[n].Farm_Size = 5 /\ farmers[n].Farm_Size = 0

\* C8: a PUT of {deactivated: false} to a deactivated farmer is answered 200
\* and clears the stored flag; a DELETE sets it again; and no step of a
\* request is ever blocked, so every row can always be taken to either state.
C8_DeactivationReversible ==
    /\ (/\ Answered("PUT /api/farmers/:id")
        /\ DOMAIN req.body = {"deactivated"}
        /\ ~req.body["deactivated"]
        /\ ~result.err
        /\ Target /= {})
       => /\ res.status = 200
          /\ ~res.deactivated
          /\ \A n \in Target : farmers[n].deactivated = 0
    /\ (Answered("DELETE /api/farmers/:id") /\ ~result.err)
       => \A n \in Target : farmers[n].deactivated = 1
    /\ pc = "idle" =>
          \A n \in DOMAIN farmers :
             /\ ENABLED PutFarmer(ToString(n), ("deactivated" :> FALSE))
             /\ ENABLED DeleteFarmer(ToString(n))
    /\ pc = "queued" => ENABLED DbExec
    /\ pc = "done" => ENABLED (PutCallback \/ DeleteCallback \/ PostCallback
                                \/ GetFarmersCallback \/ GetCropDistributionCallback
                                \/ GetDataCallback)
    /\ pc = "responded" => ENABLED Listen

\* {deactivated: false} reactivated a deactivated farmer.
C8_Witness ==
    /\ Answered("PUT /api/farmers/:id")
    /\ DOMAIN req.body = {"deactivated"}
    /\ res.status = 200
    /\ \E n \in Target : before[n].deactivated = 1 /\ farmers[n].deactivated = 0

\* C9: the crop distribution of the table holds exactly one row per crop type
\* present among all farmers, deactivated ones included, its count the number
\* of farmers with that crop type; GET /api/crop_distribution answers it.
C9_CropDistribution ==
    LET dist == SelectCropDistribution(farmers)
        Having(crop) == {r \in DOMAIN farmers : farmers[r].Crop_Type = crop}
    IN  /\ \A r \in DOMAIN farmers :
              Cardinality({g \in dist : g.crop_type = farmers[r].Crop_Type}) = 1
        /\ \A g \in dist :
              /\ Having(g.crop_type) /= {}
              /\ g.count = Cardinality(Having(g.crop_type))
        /\ (Answered("GET /api/crop_distribution") /\ res.status = 200) =>
              res.rows = dist

\* The distribution counted two farmers of one crop, one of them deactivated.
C9_Witness ==
    /\ Answered("GET /api/crop_distribution")
    /\ res.status = 200
    /\ \E g \in res.rows : g.count = 2
    /\ \E r \in DOMAIN farmers : farmers[r].deactivated = 1

\* C10 as stated: every request, the ones answered 400 included, has made
\* exactly one store call by the time its response is sent.
C10_EveryRequestCallsStore ==
    pc = "responded" => dbCalls = 1

\* C10 amended: a request the handler does not reject makes exactly one store
\* call and has no response until the call's callback has run; a request
\* answered 400 is answered by the handler and makes no store call.
C10_OneCallUnlessRejected ==
    /\ dbCalls \in {0, 1}
    /\ pc \in {"queued", "done"} => (dbCalls = 1 /\ res = NoRes /\ stmt /= NoStmt)
    /\ pc = "responded" =>
          /\ res.status \in {200, 400, 404, 500}
          /\ res.status = 400 <=> dbCalls = 0
          /\ res.status /= 400 => stmt /= NoStmt
    /\ pc = "idle" => (dbCalls = 0 /\ res = NoRes)

\* A PUT with nothing to update was answered 400 without a store call.
C10_Witness ==
    /\ Answered("PUT /api/farmers/:id")
    /\ res.status = 400
    /\ dbCalls = 0
    /\ farmers /= <<>>

====
